---- MODULE Spec2Model ----
(***************************************************************************)
(* Option resolution of Intl.DurationFormat:                               *)
(*   core/engine/src/builtins/intl/duration_format/options.rs              *)
(*   core/engine/src/builtins/intl/duration_format/mod.rs                  *)
(*                                                                         *)
(* Rust enum variants are modelled by their names as strings ("Long",      *)
(* "TwoDigit", ...), option values by the JavaScript strings the options   *)
(* object holds ("long", "2-digit", ...).  Option<T>::None is NONE, an     *)
(* undefined property is UNDEFINED.                                        *)
(***************************************************************************)
EXTENDS Naturals, Integers, Sequences, FiniteSets, TLC

VARIABLES
    pc,                 \* position in the constructor / in Service::resolve
    new_target,         \* the NewTarget the constructor was invoked with
    options,            \* the options object, as far as it has been read
    provider,           \* the extension-validity oracle's data: locale id -> accepted nu values
    arg_locale,         \* the locale handed to Service::resolve (as it was on entry)
    arg_nu,             \* options.numbering_system on entry to Service::resolve
    locale,             \* the negotiated locale (mutated by Service::resolve)
    numbering_system,   \* opt.service_options.numbering_system
    style,              \* the resolved GlobalStyle
    prev_style,         \* prevStyle of the unit traversal
    unit_options,       \* the resolved UnitOptions so far, in unit order
    fractional_digits,  \* the resolved fractionalDigits
    result,             \* outcome of the constructor call
    err_unit,           \* the unit whose resolution raised, if any
    duration_format,    \* the DurationFormat the constructor created, if any
    frame               \* the locals of a UnitOptions::from_options call taken step by step

vars == << pc, new_target, options, provider, arg_locale, arg_nu, locale,
           numbering_system, style, prev_style, unit_options,
           fractional_digits, result, err_unit, duration_format, frame >>

NONE == "None"
UNDEFINED == "undefined"
UNREAD == "unread"
ParseError == "ParseError"
(* prevStyle before the first carrying unit: "the empty String" *)
EmptyStyle == ""

(* ---------------------------------------------------------------------- *)
(* Bounds                                                                  *)
(* ---------------------------------------------------------------------- *)

(* at most this many per-unit style and display options are given explicitly *)
MaxExplicit == 2

(* ---------------------------------------------------------------------- *)
(* options.rs: the enums and their parsers                                 *)
(* ---------------------------------------------------------------------- *)

GlobalStyle == {"Long", "Short", "Narrow", "Digital"}

GlobalStyle_default == "Short"

GlobalStyle_from_str(s) ==
    CASE s = "long" -> "Long"
      [] s = "short" -> "Short"
      [] s = "narrow" -> "Narrow"
      [] s = "digital" -> "Digital"
      [] OTHER -> ParseError

Style == {"Long", "Short", "Narrow", "Numeric", "TwoDigit", "Fractional"}

Style_from_str(s) ==
    CASE s = "long" -> "Long"
      [] s = "short" -> "Short"
      [] s = "narrow" -> "Narrow"
      [] s = "numeric" -> "Numeric"
      [] s = "2-digit" -> "TwoDigit"
      [] s = "fractional" -> "Fractional"
      [] OTHER -> ParseError

Display == {"Auto", "Always"}

Display_from_str(s) ==
    CASE s = "auto" -> "Auto"
      [] s = "always" -> "Always"
      [] OTHER -> ParseError

(* get_option: an undefined property is Ok(None); any other value is       *)
(* parsed (`parsed` is the outcome of the option type's from_str on it),   *)
(* and a value that does not parse is a RangeError.                        *)
get_option(value, parsed) ==
    IF value = UNDEFINED
    THEN [err |-> FALSE, val |-> NONE]
    ELSE IF parsed = ParseError
         THEN [err |-> TRUE, val |-> NONE]
         ELSE [err |-> FALSE, val |-> parsed]

(* GlobalStyle::from_options: unwrap_or_default() on the JsResult, then on *)
(* the Option.                                                             *)
GlobalStyle_from_options(opts) ==
    LET got == get_option(opts["style"], GlobalStyle_from_str(opts["style"]))
        unwrapped == IF got.err THEN NONE ELSE got.val
    IN IF unwrapped = NONE THEN GlobalStyle_default ELSE unwrapped

(* ---------------------------------------------------------------------- *)
(* options.rs: the unit catalog                                            *)
(* ---------------------------------------------------------------------- *)

Contains(list, x) == \E i \in 1..Len(list) : list[i] = x

base_styles == << "Long", "Short", "Short" >>

digital_styles == base_styles \o << "Numeric", "TwoDigit" >>

fractional_styles == base_styles \o << "Fractional" >>

StylesList_list(self) ==
    CASE self = "Base" -> base_styles
      [] self = "Digital" -> digital_styles
      [] self = "Fractional" -> fractional_styles

(* the fixed traversal order, "Table 3" *)
Units == << "Years", "Months", "Weeks", "Days", "Hours", "Minutes",
            "Seconds", "Milliseconds", "Microseconds", "Nanoseconds" >>

UnitSet == {Units[i] : i \in 1..Len(Units)}

(* Unit::to_str.  The match arms name the variants without `Self::`; the   *)
(* mapping modelled is the one the arms spell out, variant by variant.     *)
Unit_to_str(self) ==
    CASE self = "Years" -> "years"
      [] self = "Months" -> "months"
      [] self = "Weeks" -> "weeks"
      [] self = "Days" -> "days"
      [] self = "Hours" -> "hours"
      [] self = "Minutes" -> "minutes"
      [] self = "Seconds" -> "seconds"
      [] self = "Milliseconds" -> "milliseconds"
      [] self = "Microseconds" -> "microseconds"
      [] self = "Nanoseconds" -> "nanoseconds"

Unit_styles_list(self) ==
    IF self \in {"Years", "Months", "Weeks", "Days"} THEN "Base"
    ELSE IF self \in {"Hours", "Minutes", "Seconds"} THEN "Digital"
    ELSE "Fractional"

(* mutant: "Days" is missing from the list of base units *)
Unit_digital_default_DaysDropped(self) ==
    IF self \in {"Years", "Months", "Weeks"} THEN "Short"
    ELSE IF self \in {"Microseconds", "Nanoseconds"} THEN "Fractional"
    ELSE "Numeric"

Unit_digital_default(self) ==
    IF self \in {"Years", "Months", "Weeks", "Days"} THEN "Short"
    ELSE IF self \in {"Microseconds", "Nanoseconds"} THEN "Fractional"
    ELSE "Numeric"

StyleKey(unit) == Unit_to_str(unit)

DisplayKey(unit) == Unit_to_str(unit) \o "Display"

(* mutant: the style is not looked up in the unit's list *)
Unit_style_from_options_Unchecked(self, opts) ==
    LET got == get_option(opts[StyleKey(self)], Style_from_str(opts[StyleKey(self)]))
    IN IF got.err THEN [err |-> TRUE, val |-> NONE]
       ELSE [err |-> FALSE, val |-> got.val]

(* Unit::style_from_options: Ok(Option<Style>) or a RangeError *)
Unit_style_from_options(self, opts) ==
    LET list == StylesList_list(Unit_styles_list(self))
        got == get_option(opts[StyleKey(self)], Style_from_str(opts[StyleKey(self)]))
    IN IF got.err THEN [err |-> TRUE, val |-> NONE]
       ELSE IF got.val # NONE /\ ~Contains(list, got.val)
            THEN [err |-> TRUE, val |-> NONE]
            ELSE [err |-> FALSE, val |-> got.val]

(* Unit::display_from_options: Ok(Display) or a RangeError *)
Unit_display_from_options(self, opts, default) ==
    LET got == get_option(opts[DisplayKey(self)], Display_from_str(opts[DisplayKey(self)]))
    IN IF got.err THEN [err |-> TRUE, val |-> NONE]
       ELSE [err |-> FALSE, val |-> IF got.val = NONE THEN default ELSE got.val]

(* ---------------------------------------------------------------------- *)
(* options.rs: UnitOptions::from_options, GetDurationUnitOptions           *)
(* ---------------------------------------------------------------------- *)

(* `base_style.into()`: the conversion GlobalStyle -> Style is not part of *)
(* the sources; it is the one-to-one renaming, and Digital never reaches   *)
(* it.                                                                     *)
GlobalStyle_into(base_style) ==
    CASE base_style = "Long" -> "Long"
      [] base_style = "Short" -> "Short"
      [] base_style = "Narrow" -> "Narrow"
      [] OTHER -> "Unreachable"

(* mutant: step 3.b.i tests prevStyle against "fractional" alone *)
DefaultStyle_FractionalOnly(unit, explicit, base_style, prev) ==
    IF explicit # NONE
    THEN [style |-> explicit, display_default |-> "Always"]
    ELSE IF base_style = "Digital"
    THEN [style |-> Unit_digital_default(unit),
          display_default |-> IF unit \notin {"Hours", "Minutes", "Seconds"}
                              THEN "Auto" ELSE "Always"]
    ELSE IF prev \in {"Fractional"}
    THEN [style |-> "Numeric",
          display_default |-> IF unit \notin {"Minutes", "Seconds"}
                              THEN "Auto" ELSE "Always"]
    ELSE [style |-> GlobalStyle_into(base_style), display_default |-> "Auto"]

(* mutant: step 2 lets displayDefault be "auto" *)
DefaultStyle_ExplicitAuto(unit, explicit, base_style, prev) ==
    IF explicit # NONE
    THEN [style |-> explicit, display_default |-> "Auto"]
    ELSE IF base_style = "Digital"
    THEN [style |-> Unit_digital_default(unit),
          display_default |-> IF unit \notin {"Hours", "Minutes", "Seconds"}
                              THEN "Auto" ELSE "Always"]
    ELSE IF prev \in {"Fractional", "Numeric", "TwoDigit"}
    THEN [style |-> "Numeric",
          display_default |-> IF unit \notin {"Minutes", "Seconds"}
                              THEN "Auto" ELSE "Always"]
    ELSE [style |-> GlobalStyle_into(base_style), display_default |-> "Auto"]

(* mutant: step 3.b.i.1 sets displayDefault to "auto" for every unit *)
DefaultStyle_AutoForAll(unit, explicit, base_style, prev) ==
    IF explicit # NONE
    THEN [style |-> explicit, display_default |-> "Always"]
    ELSE IF base_style = "Digital"
    THEN [style |-> Unit_digital_default(unit),
          display_default |-> IF unit \notin {"Hours", "Minutes", "Seconds"}
                              THEN "Auto" ELSE "Always"]
    ELSE IF prev \in {"Fractional", "Numeric", "TwoDigit"}
    THEN [style |-> "Numeric", display_default |-> "Auto"]
    ELSE [style |-> GlobalStyle_into(base_style), display_default |-> "Auto"]

(* mutant: step 3.b.ii.1 is left out *)
DefaultStyle_BaseAlways(unit, explicit, base_style, prev) ==
    IF explicit # NONE
    THEN [style |-> explicit, display_default |-> "Always"]
    ELSE IF base_style = "Digital"
    THEN [style |-> Unit_digital_default(unit),
          display_default |-> IF unit \notin {"Hours", "Minutes", "Seconds"}
                              THEN "Auto" ELSE "Always"]
    ELSE IF prev \in {"Fractional", "Numeric", "TwoDigit"}
    THEN [style |-> "Numeric",
          display_default |-> IF unit \notin {"Minutes", "Seconds"}
                              THEN "Auto" ELSE "Always"]
    ELSE [style |-> GlobalStyle_into(base_style), display_default |-> "Always"]

(* steps 2-3: displayDefault and the style of a unit without explicit style *)
DefaultStyle(unit, explicit, base_style, prev) ==
    IF explicit # NONE
    THEN [style |-> explicit, display_default |-> "Always"]
    ELSE IF base_style = "Digital"
    THEN [style |-> Unit_digital_default(unit),
          display_default |-> IF unit \notin {"Hours", "Minutes", "Seconds"}
                              THEN "Auto" ELSE "Always"]
    ELSE IF prev \in {"Fractional", "Numeric", "TwoDigit"}
    THEN [style |-> "Numeric",
          display_default |-> IF unit \notin {"Minutes", "Seconds"}
                              THEN "Auto" ELSE "Always"]
    ELSE [style |-> GlobalStyle_into(base_style), display_default |-> "Auto"]

(* mutant: step 4 is left out *)
NumericToFractional_Skipped(unit, d) == d

(* step 4: a numeric sub-second unit becomes fractional *)
NumericToFractional(unit, d) ==
    IF d.style = "Numeric"
       /\ unit \in {"Milliseconds", "Microseconds", "Nanoseconds"}
    THEN [style |-> "Fractional", display_default |-> "Auto"]
    ELSE d

(* mutant: step 7 tests the style as it was before step 4 *)
FractionalAlways_Numeric(display, st) == display = "Always" /\ st = "Numeric"

(* step 7 *)
FractionalAlways(display, st) == display = "Always" /\ st = "Fractional"

(* mutant: step 8 tests prevStyle against "numeric" *)
FractionalChainBroken_NumericPrev(prev, st) == prev = "Numeric" /\ st # "Fractional"

(* step 8 *)
FractionalChainBroken(prev, st) == prev = "Fractional" /\ st # "Fractional"

(* mutant: step 9 tests prevStyle against "numeric" alone *)
NumericChainBroken_NumericOnly(prev, st) ==
    /\ prev \in {"Numeric"}
    /\ st \notin {"Fractional", "Numeric", "TwoDigit"}

(* step 9.a *)
NumericChainBroken(prev, st) ==
    /\ prev \in {"Numeric", "TwoDigit"}
    /\ st \notin {"Fractional", "Numeric", "TwoDigit"}

(* mutant: step 9.b covers minutes alone *)
ForceTwoDigit_MinutesOnly(unit, prev, st) ==
    IF prev \in {"Numeric", "TwoDigit"} /\ unit \in {"Minutes"}
    THEN "TwoDigit"
    ELSE st

(* mutant: step 9.b covers every unit *)
ForceTwoDigit_AnyUnit(unit, prev, st) ==
    IF prev \in {"Numeric", "TwoDigit"}
    THEN "TwoDigit"
    ELSE st

(* step 9.b *)
ForceTwoDigit(unit, prev, st) ==
    IF prev \in {"Numeric", "TwoDigit"} /\ unit \in {"Minutes", "Seconds"}
    THEN "TwoDigit"
    ELSE st

RangeErr(display_read) ==
    [err |-> TRUE, style |-> NONE, display |-> NONE, display_read |-> display_read]

(* UnitOptions::from_options.  display_read tells whether the unit's       *)
(* display option was read before the call returned.                       *)
UnitOptions_from_options(unit, opts, base_style, prev) ==
    LET explicit == Unit_style_from_options(unit, opts)
    IN IF explicit.err THEN RangeErr(FALSE)
       ELSE
       LET d == NumericToFractional(unit,
                    DefaultStyle(unit, explicit.val, base_style, prev))
           display == Unit_display_from_options(unit, opts, d.display_default)
       IN IF display.err THEN RangeErr(TRUE)
          ELSE IF FractionalAlways(display.val, d.style) THEN RangeErr(TRUE)
          ELSE IF FractionalChainBroken(prev, d.style) THEN RangeErr(TRUE)
          ELSE IF NumericChainBroken(prev, d.style) THEN RangeErr(TRUE)
          ELSE [err |-> FALSE,
                style |-> ForceTwoDigit(unit, prev, d.style),
                display |-> display.val,
                display_read |-> TRUE]

(* step 17.i of the constructor: the units after which prevStyle is set *)
CarriesPrevStyle(unit) ==
    unit \in {"Hours", "Minutes", "Seconds", "Milliseconds", "Microseconds"}

(* ---------------------------------------------------------------------- *)
(* mod.rs: Service::resolve                                                *)
(* ---------------------------------------------------------------------- *)

KeywordKeys == {"nu", "ca"}

(* validate_extension::<LangMarker>(locale.id, key!("nu"), nu, provider) *)
validate_extension(id, value, prov) == value \in prov[id]

(* mutant: the locale's own keyword is asked first, the option second *)
ResolveNumberingSystem_LocaleFirst(loc, nu, prov) ==
    LET explicit == IF nu # NONE /\ validate_extension(loc.id, nu, prov)
                    THEN nu ELSE NONE
        own == loc.keywords["nu"]
        from_locale == IF own # NONE /\ validate_extension(loc.id, own, prov)
                       THEN own ELSE NONE
    IN IF from_locale # NONE THEN from_locale ELSE explicit

(* mutant: the explicit numbering system is taken without asking the oracle *)
ResolveNumberingSystem_Unfiltered(loc, nu, prov) ==
    LET own == loc.keywords["nu"]
        from_locale == IF own # NONE /\ validate_extension(loc.id, own, prov)
                       THEN own ELSE NONE
    IN IF nu # NONE THEN nu ELSE from_locale

ResolveNumberingSystem(loc, nu, prov) ==
    LET explicit == IF nu # NONE /\ validate_extension(loc.id, nu, prov)
                    THEN nu ELSE NONE
        own == loc.keywords["nu"]
        from_locale == IF own # NONE /\ validate_extension(loc.id, own, prov)
                       THEN own ELSE NONE
    IN IF explicit # NONE THEN explicit ELSE from_locale

(* mutant: the unicode extensions are not cleared *)
ClearUnicode_Skipped(loc) == loc

(* locale.extensions.unicode.clear() *)
ClearUnicode(loc) == [loc EXCEPT !.keywords = [k \in KeywordKeys |-> NONE]]

(* locale.extensions.unicode.keywords.set(key!("nu"), nu) when Some(nu) *)
SetNu(loc, ns) ==
    IF ns # NONE THEN [loc EXCEPT !.keywords["nu"] = ns] ELSE loc

Service_resolve(loc, nu, prov) ==
    LET ns == ResolveNumberingSystem(loc, nu, prov)
    IN [locale |-> SetNu(ClearUnicode(loc), ns), numbering_system |-> ns]

(* ---------------------------------------------------------------------- *)
(* Inputs                                                                  *)
(* ---------------------------------------------------------------------- *)

GlobalStyleOptionValues == {"long", "short", "narrow", "digital", "bogus"}

StyleOptionValues ==
    {"long", "short", "narrow", "numeric", "2-digit", "fractional", "bogus"}

DisplayOptionValues == {"auto", "always", "bogus"}

(* fractionalDigits option values, converted by ToNumber when read *)
FractionalDigitsValues == {"-1", "0", "9", "10"}

NuValues == {"latn", "arab", "thai"}

(* a numbering system option that is no well-formed unicode extension value *)
MalformedNu == "!"

LocaleIds == {"en", "ar"}

Locales ==
    {[id |-> i, keywords |-> [k \in KeywordKeys |-> IF k = "nu" THEN n ELSE c]] :
        i \in LocaleIds, n \in NuValues \cup {NONE}, c \in {"gregory", NONE}}

Providers == [LocaleIds -> SUBSET NuValues]

(* the provider and the negotiated locales of the constructor runs *)
ContextProvider == [i \in LocaleIds |-> IF i = "ar" THEN {"arab", "latn"} ELSE {"latn"}]

NegotiatedLocales == {[id |-> "en", keywords |-> [k \in KeywordKeys |-> NONE]]}

ConstructorNuValues == {"latn", MalformedNu}

OptionKeys ==
    {"style", "numberingSystem", "fractionalDigits"}
    \cup {StyleKey(u) : u \in UnitSet} \cup {DisplayKey(u) : u \in UnitSet}

UnitOptionKeys ==
    {StyleKey(u) : u \in UnitSet} \cup {DisplayKey(u) : u \in UnitSet}

(* the per-unit options read so far and found present *)
Explicit(opts) == {k \in UnitOptionKeys : opts[k] \notin {UNREAD, UNDEFINED}}

Given(v) == IF v = UNDEFINED THEN 0 ELSE 1

(* ---------------------------------------------------------------------- *)
(* mod.rs: DurationFormat::constructor, step by step                       *)
(* ---------------------------------------------------------------------- *)

Init ==
    /\ pc = "new_target"
    /\ new_target = UNREAD
    /\ options = [k \in OptionKeys |-> UNREAD]
    /\ provider = ContextProvider
    /\ arg_locale = NONE
    /\ arg_nu = NONE
    /\ locale = NONE
    /\ numbering_system = NONE
    /\ style = NONE
    /\ prev_style = EmptyStyle
    /\ unit_options = << >>
    /\ fractional_digits = << >>
    /\ result = "pending"
    /\ err_unit = NONE
    /\ duration_format = NONE
    /\ frame = NONE

Throw(kind) ==
    /\ pc' = "done"
    /\ result' = kind

(* mutant: NewTarget is tested after the locale and the options are resolved *)
Constructor_NewTarget_Late ==
    /\ pc = "new_target"
    /\ \E nt \in {UNDEFINED, "function"} :
        /\ new_target' = nt
        /\ pc' = "locale"
        /\ result' = result
    /\ UNCHANGED << options, provider, arg_locale, arg_nu, locale,
                    numbering_system, style, prev_style, unit_options,
                    fractional_digits, err_unit >>
    /\ UNCHANGED << duration_format, frame >>

(* step 1 *)
Constructor_NewTarget ==
    /\ pc = "new_target"
    /\ \E nt \in {UNDEFINED, "function"} :
        /\ new_target' = nt
        /\ IF nt = UNDEFINED
           THEN Throw("TypeError")
           ELSE pc' = "locale" /\ result' = result
    /\ UNCHANGED << options, provider, arg_locale, arg_nu, locale,
                    numbering_system, style, prev_style, unit_options,
                    fractional_digits, err_unit >>
    /\ UNCHANGED << duration_format, frame >>

(* Value::from_str of the numberingSystem option *)
Value_from_str(s) == IF s \in NuValues THEN s ELSE ParseError

(* steps 6-9: read numberingSystem, negotiate the locale and enter         *)
(* Service::resolve through resolve_locale                                 *)
Constructor_Locale ==
    /\ pc = "locale"
    /\ \E v \in ConstructorNuValues \cup {UNDEFINED}, loc \in NegotiatedLocales :
        LET got == get_option(v, Value_from_str(v))
        IN /\ options' = [options EXCEPT !["numberingSystem"] = v]
           /\ IF got.err
              THEN /\ Throw("RangeError")
                   /\ UNCHANGED << arg_locale, arg_nu, locale, numbering_system >>
              ELSE /\ pc' = "resolve"
                   /\ result' = result
                   /\ arg_locale' = loc
                   /\ locale' = loc
                   /\ arg_nu' = got.val
                   /\ numbering_system' = got.val
    /\ UNCHANGED << new_target, provider, style, prev_style, unit_options,
                    fractional_digits, err_unit >>
    /\ UNCHANGED << duration_format, frame >>

(* Service::resolve *)
Service_Resolve ==
    /\ pc = "resolve"
    /\ LET r == Service_resolve(locale, numbering_system, provider)
       IN /\ locale' = r.locale
          /\ numbering_system' = r.numbering_system
    /\ pc' = "style"
    /\ UNCHANGED << new_target, options, provider, arg_locale, arg_nu, style,
                    prev_style, unit_options, fractional_digits, result, err_unit >>
    /\ UNCHANGED << duration_format, frame >>

(* mutant: prevStyle starts as the default style instead of the empty String *)
Constructor_Style_Seeded ==
    /\ pc = "style"
    /\ \E v \in GlobalStyleOptionValues \cup {UNDEFINED} :
        /\ options' = [options EXCEPT !["style"] = v]
        /\ style' = GlobalStyle_from_options(options')
    /\ prev_style' = "Short"
    /\ pc' = "units"
    /\ UNCHANGED << new_target, provider, arg_locale, arg_nu, locale,
                    numbering_system, unit_options, fractional_digits, result,
                    err_unit >>
    /\ UNCHANGED << duration_format, frame >>

(* steps 13 and 16 *)
Constructor_Style ==
    /\ pc = "style"
    /\ \E v \in GlobalStyleOptionValues \cup {UNDEFINED} :
        /\ options' = [options EXCEPT !["style"] = v]
        /\ style' = GlobalStyle_from_options(options')
    /\ prev_style' = EmptyStyle
    /\ pc' = "units"
    /\ UNCHANGED << new_target, provider, arg_locale, arg_nu, locale,
                    numbering_system, unit_options, fractional_digits, result,
                    err_unit >>
    /\ UNCHANGED << duration_format, frame >>

(* step 17: one row of Table 3 *)
Constructor_Unit ==
    /\ pc = "units"
    /\ LET unit == Units[Len(unit_options) + 1]
       IN \E s \in StyleOptionValues \cup {UNDEFINED},
             d \in DisplayOptionValues \cup {UNDEFINED} :
            /\ Cardinality(Explicit(options)) + Given(s) + Given(d) <= MaxExplicit
            /\ LET given == [options EXCEPT ![StyleKey(unit)] = s,
                                            ![DisplayKey(unit)] = d]
                   r == UnitOptions_from_options(unit, given, style, prev_style)
               IN /\ options' = [given EXCEPT ![DisplayKey(unit)] =
                                    IF r.display_read THEN d ELSE UNREAD]
                  /\ IF r.err
                     THEN /\ Throw("RangeError")
                          /\ err_unit' = unit
                          /\ UNCHANGED << unit_options, prev_style >>
                     ELSE /\ unit_options' = Append(unit_options,
                                 [style |-> r.style, display |-> r.display])
                          /\ prev_style' = IF CarriesPrevStyle(unit)
                                           THEN r.style ELSE prev_style
                          /\ pc' = IF Len(unit_options) + 1 = Len(Units)
                                   THEN "fractional_digits" ELSE "units"
                          /\ UNCHANGED << result, err_unit >>
    /\ UNCHANGED << new_target, provider, arg_locale, arg_nu, locale,
                    numbering_system, style, fractional_digits >>
    /\ UNCHANGED << duration_format, frame >>

(* value.to_number(context) of the option values above *)
to_number(value) ==
    CASE value = "-1" -> -1
      [] value = "0" -> 0
      [] value = "9" -> 9
      [] value = "10" -> 10

(* Option<i32>: None is the empty sequence, Some(n) the sequence of n alone *)
NoNumber == << >>

Some(n) == << n >>

(* get_number_option(options, "fractionalDigits", 0, 9) *)
get_number_option(value, minimum, maximum) ==
    IF value = UNDEFINED THEN [err |-> FALSE, val |-> NoNumber]
    ELSE IF to_number(value) < minimum \/ to_number(value) > maximum
         THEN [err |-> TRUE, val |-> NoNumber]
         ELSE [err |-> FALSE, val |-> Some(to_number(value))]

(* the struct literal `Self { locale, style, fractional_digits,             *)
(* numbering_system }` the created object holds                            *)
DurationFormat(loc, global_style, digits, nu) ==
    [locale |-> loc, numbering_system |-> nu, style |-> global_style,
     fractional_digits |-> digits]

(* mutant: the JsResult of get_number_option is unwrapped with its default *)
Constructor_FractionalDigits_Unwrapped ==
    /\ pc = "fractional_digits"
    /\ \E v \in FractionalDigitsValues \cup {UNDEFINED} :
        LET got == get_number_option(v, 0, 9)
        IN /\ options' = [options EXCEPT !["fractionalDigits"] = v]
           /\ fractional_digits' = got.val
           /\ duration_format' = DurationFormat(locale, style, got.val, numbering_system)
           /\ pc' = "done"
           /\ result' = "object"
    /\ UNCHANGED << new_target, provider, arg_locale, arg_nu, locale,
                    numbering_system, style, prev_style, unit_options, err_unit >>
    /\ UNCHANGED frame

(* steps 18-19 *)
Constructor_FractionalDigits ==
    /\ pc = "fractional_digits"
    /\ \E v \in FractionalDigitsValues \cup {UNDEFINED} :
        LET got == get_number_option(v, 0, 9)
        IN /\ options' = [options EXCEPT !["fractionalDigits"] = v]
           /\ IF got.err
              THEN Throw("RangeError") /\ UNCHANGED << fractional_digits, duration_format >>
              ELSE /\ fractional_digits' = got.val
                   /\ duration_format' = DurationFormat(locale, style, got.val, numbering_system)
                   /\ pc' = "done"
                   /\ result' = "object"
    /\ UNCHANGED << new_target, provider, arg_locale, arg_nu, locale,
                    numbering_system, style, prev_style, unit_options, err_unit >>
    /\ UNCHANGED frame

Next ==
    \/ Constructor_NewTarget
    \/ Constructor_Locale
    \/ Service_Resolve
    \/ Constructor_Style
    \/ Constructor_Unit
    \/ Constructor_FractionalDigits

Spec == Init /\ [][Next]_vars

(* ---------------------------------------------------------------------- *)
(* Service::resolve on its own, over every locale, option and provider     *)
(* ---------------------------------------------------------------------- *)

InitResolve ==
    /\ pc = "resolve"
    /\ new_target = "function"
    /\ options = [k \in OptionKeys |-> UNREAD]
    /\ provider \in Providers
    /\ arg_locale \in Locales
    /\ arg_nu \in NuValues \cup {NONE}
    /\ locale = arg_locale
    /\ numbering_system = arg_nu
    /\ style = NONE
    /\ prev_style = EmptyStyle
    /\ unit_options = << >>
    /\ fractional_digits = << >>
    /\ result = "pending"
    /\ err_unit = NONE
    /\ duration_format = NONE
    /\ frame = NONE

NextResolve == Service_Resolve

SpecResolve == InitResolve /\ [][NextResolve]_vars

(* ---------------------------------------------------------------------- *)
(* options.rs: one call of UnitOptions::from_options taken step by step,   *)
(* over every unit, base style and previous style.  `style` is the         *)
(* base_style argument, `prev_style` the prev_style argument and `frame`   *)
(* holds the locals.                                                       *)
(* ---------------------------------------------------------------------- *)

PrevStyles == Style \cup {EmptyStyle}

Frame(unit, st, display_default, display) ==
    [unit |-> unit, style |-> st, display_default |-> display_default,
     display |-> display]

InitUnit ==
    /\ pc = "unit_style"
    /\ new_target = "function"
    /\ options = [k \in OptionKeys |-> UNREAD]
    /\ provider = ContextProvider
    /\ arg_locale = NONE
    /\ arg_nu = NONE
    /\ locale = NONE
    /\ numbering_system = NONE
    /\ style \in GlobalStyle
    /\ prev_style \in PrevStyles
    /\ unit_options = << >>
    /\ fractional_digits = << >>
    /\ result = "pending"
    /\ err_unit = NONE
    /\ duration_format = NONE
    /\ \E unit \in UnitSet : frame = Frame(unit, NONE, NONE, NONE)

UnitFrameUnchanged ==
    UNCHANGED << new_target, provider, arg_locale, arg_nu, locale,
                 numbering_system, style, prev_style, fractional_digits,
                 duration_format >>

UnitThrow ==
    /\ Throw("RangeError")
    /\ err_unit' = frame.unit
    /\ UNCHANGED << frame, unit_options >>

(* step 1 *)
FromOptions_Style ==
    /\ pc = "unit_style"
    /\ \E s \in StyleOptionValues \cup {UNDEFINED} :
        /\ options' = [options EXCEPT ![StyleKey(frame.unit)] = s]
        /\ LET got == Unit_style_from_options(frame.unit, options')
           IN IF got.err
              THEN UnitThrow
              ELSE /\ frame' = [frame EXCEPT !.style = got.val]
                   /\ pc' = "unit_default"
                   /\ UNCHANGED << result, err_unit, unit_options >>
    /\ UnitFrameUnchanged

(* steps 2-3 *)
FromOptions_Default ==
    /\ pc = "unit_default"
    /\ LET d == DefaultStyle(frame.unit, frame.style, style, prev_style)
       IN frame' = [frame EXCEPT !.style = d.style,
                                 !.display_default = d.display_default]
    /\ pc' = "unit_numeric"
    /\ UNCHANGED << options, result, err_unit, unit_options >>
    /\ UnitFrameUnchanged

(* step 4 *)
FromOptions_Numeric ==
    /\ pc = "unit_numeric"
    /\ LET d == NumericToFractional(frame.unit,
                    [style |-> frame.style,
                     display_default |-> frame.display_default])
       IN frame' = [frame EXCEPT !.style = d.style,
                                 !.display_default = d.display_default]
    /\ pc' = "unit_display"
    /\ UNCHANGED << options, result, err_unit, unit_options >>
    /\ UnitFrameUnchanged

(* steps 5-6 *)
FromOptions_Display ==
    /\ pc = "unit_display"
    /\ \E d \in DisplayOptionValues \cup {UNDEFINED} :
        /\ options' = [options EXCEPT ![DisplayKey(frame.unit)] = d]
        /\ LET got == Unit_display_from_options(frame.unit, options',
                                                frame.display_default)
           IN IF got.err
              THEN UnitThrow
              ELSE /\ frame' = [frame EXCEPT !.display = got.val]
                   /\ pc' = "unit_validate"
                   /\ UNCHANGED << result, err_unit, unit_options >>
    /\ UnitFrameUnchanged

(* steps 7, 8 and 9.a *)
FromOptions_Validate ==
    /\ pc = "unit_validate"
    /\ IF \/ FractionalAlways(frame.display, frame.style)
          \/ FractionalChainBroken(prev_style, frame.style)
          \/ NumericChainBroken(prev_style, frame.style)
       THEN UnitThrow
       ELSE /\ pc' = "unit_return"
            /\ UNCHANGED << frame, result, err_unit, unit_options >>
    /\ UNCHANGED options
    /\ UnitFrameUnchanged

(* steps 9.b and 10 *)
FromOptions_Return ==
    /\ pc = "unit_return"
    /\ unit_options' = << [style |-> ForceTwoDigit(frame.unit, prev_style, frame.style),
                           display |-> frame.display] >>
    /\ pc' = "done"
    /\ result' = "Ok"
    /\ UNCHANGED << frame, options, err_unit >>
    /\ UnitFrameUnchanged

NextUnit ==
    \/ FromOptions_Style
    \/ FromOptions_Default
    \/ FromOptions_Numeric
    \/ FromOptions_Display
    \/ FromOptions_Validate
    \/ FromOptions_Return

SpecUnit == InitUnit /\ [][NextUnit]_vars

(* ---------------------------------------------------------------------- *)
(* Properties                                                              *)
(* ---------------------------------------------------------------------- *)

UnitIndex(u) == CHOOSE i \in 1..Len(Units) : Units[i] = u

Resolved(u) == UnitIndex(u) <= Len(unit_options)

OptionsOf(u) == unit_options[UnitIndex(u)]

Pair(st, display) == [style |-> st, display |-> display]

(* the unit the traversal resolves next *)
CurrentUnit == Units[Len(unit_options) + 1]

(* the style sets the unit catalog is specified to hold *)
SpecifiedStyles(u) ==
    IF u \in {"Years", "Months", "Weeks", "Days"}
    THEN {"Long", "Short", "Narrow"}
    ELSE IF u \in {"Hours", "Minutes", "Seconds"}
    THEN {"Long", "Short", "Narrow", "Numeric", "TwoDigit"}
    ELSE {"Long", "Short", "Narrow", "Fractional"}

NoUnitOverrides == Explicit(options) = {}

(* C1: the resolved style of every unit resolved so far, and so of all ten *)
(* units of a successful construction, lies in the unit's specified style  *)
(* set.                                                                    *)
C1_ResolvedStyleAllowed ==
    /\ \A i \in 1..Len(unit_options) :
          unit_options[i].style \in SpecifiedStyles(Units[i])
    /\ result = "object" => Len(unit_options) = Len(Units)

C1_Witness ==
    /\ result = "object"
    /\ style = "Narrow"
    /\ OptionsOf("Years").style = "Narrow"
    /\ OptionsOf("Hours").style = "Numeric"
    /\ OptionsOf("Minutes").style = "TwoDigit"
    /\ OptionsOf("Nanoseconds").style = "Fractional"

(* C2: no resolved unit has display Always with style Fractional; a unit   *)
(* whose options give style fractional (explicitly, or as the default of a *)
(* sub-second unit under global style digital or after a numeric, 2-digit  *)
(* or fractional unit) together with display always (explicitly, or as the *)
(* default of an explicit style) raises a RangeError.                      *)
C2_NoFractionalAlways ==
    [][ /\ \A i \in 1..Len(unit_options') :
              ~(unit_options'[i].display = "Always"
                /\ unit_options'[i].style = "Fractional")
        /\ ( /\ pc = "units"
             /\ \/ /\ options'[StyleKey(CurrentUnit)] = "fractional"
                   /\ options'[DisplayKey(CurrentUnit)] \in {"always", UNDEFINED}
                \/ /\ options'[StyleKey(CurrentUnit)] = UNDEFINED
                   /\ options'[DisplayKey(CurrentUnit)] = "always"
                   /\ CurrentUnit \in {"Milliseconds", "Microseconds", "Nanoseconds"}
                   /\ \/ style = "Digital"
                      \/ prev_style \in {"Numeric", "TwoDigit", "Fractional"} )
           => (result' = "RangeError" /\ err_unit' = CurrentUnit)
      ]_vars

C2_Witness ==
    /\ result = "RangeError"
    /\ err_unit = "Microseconds"
    /\ options["microseconds"] = UNDEFINED
    /\ options["microsecondsDisplay"] = "always"
    /\ OptionsOf("Milliseconds") = Pair("Fractional", "Auto")

(* C3, as claimed: under global style digital without per-unit overrides   *)
(* hours, minutes and seconds each resolve to {Numeric, Always}.           *)
C3_DigitalAllNumeric ==
    (options["style"] = "digital" /\ NoUnitOverrides)
    => \A u \in {"Hours", "Minutes", "Seconds"} :
          Resolved(u) => OptionsOf(u) = Pair("Numeric", "Always")

(* C3, amended: under global style digital without per-unit overrides the  *)
(* traversal does not fail, hours resolves to {Numeric, Always} and        *)
(* minutes and seconds, entered with prevStyle Numeric or TwoDigit,        *)
(* resolve to {TwoDigit, Always}.                                          *)
C3_DigitalClock ==
    (options["style"] = "digital" /\ NoUnitOverrides)
    => /\ err_unit = NONE
       /\ Resolved("Hours") => OptionsOf("Hours") = Pair("Numeric", "Always")
       /\ \A u \in {"Minutes", "Seconds"} :
             Resolved(u) => OptionsOf(u) = Pair("TwoDigit", "Always")

C3_Witness ==
    /\ pc = "fractional_digits"
    /\ options["style"] = "digital"
    /\ NoUnitOverrides
    /\ OptionsOf("Seconds") = Pair("TwoDigit", "Always")

FractionalDigitsInRange == options["fractionalDigits"] \notin {"-1", "10"}

(* C4: under global style digital without per-unit overrides no unit       *)
(* raises, construction succeeds (given fractionalDigits in range),        *)
(* milliseconds resolves to {Fractional, Auto} and years, months, weeks    *)
(* and days to {Short, Auto}.                                              *)
C4_DigitalDefaults ==
    (options["style"] = "digital" /\ NoUnitOverrides)
    => /\ err_unit = NONE
       /\ (pc = "done" /\ FractionalDigitsInRange)
             => (result = "object" /\ Len(unit_options) = Len(Units))
       /\ Resolved("Milliseconds")
             => OptionsOf("Milliseconds") = Pair("Fractional", "Auto")
       /\ \A u \in {"Years", "Months", "Weeks", "Days"} :
             Resolved(u) => OptionsOf(u) = Pair("Short", "Auto")

C4_Witness ==
    /\ result = "object"
    /\ options["style"] = "digital"
    /\ NoUnitOverrides
    /\ OptionsOf("Days") = Pair("Short", "Auto")
    /\ OptionsOf("Milliseconds") = Pair("Fractional", "Auto")

NamedStyleOptions == {"long", "short", "narrow"}

(* C5: with a non-digital global style, hours "numeric" and minutes "long" *)
(* and nothing else given, construction ends in the RangeError of minutes; *)
(* and whenever a unit is entered with prevStyle Numeric or TwoDigit and   *)
(* its style resolves outside {Fractional, Numeric, TwoDigit} (which takes *)
(* an explicit long, short or narrow), that unit raises a RangeError.      *)
C5_NumericChainRejects ==
    [][ /\ ( /\ options'["style"] # "digital"
             /\ options'["hours"] = "numeric"
             /\ options'["minutes"] = "long"
             /\ Explicit(options') = {"hours", "minutes"} )
           => (result' = "RangeError" /\ err_unit' = "Minutes")
        /\ ( /\ pc = "units"
             /\ prev_style \in {"Numeric", "TwoDigit"}
             /\ options'[StyleKey(CurrentUnit)] \in NamedStyleOptions )
           => (result' = "RangeError" /\ err_unit' = CurrentUnit)
      ]_vars

C5_Witness ==
    /\ result = "RangeError"
    /\ err_unit = "Minutes"
    /\ prev_style = "Numeric"
    /\ options["style"] = "narrow"
    /\ options["hours"] = "numeric"
    /\ options["minutes"] = "long"
    /\ Explicit(options) = {"hours", "minutes"}

(* C6: with global style long, seconds "numeric" and neither style nor     *)
(* display of milliseconds given, milliseconds does not raise and resolves *)
(* to {Fractional, Auto}.                                                  *)
C6_SecondsNumericMillisFractional ==
    ( /\ options["style"] = "long"
      /\ options["seconds"] = "numeric"
      /\ options["milliseconds"] = UNDEFINED
      /\ options["millisecondsDisplay"] = UNDEFINED )
    => /\ err_unit # "Milliseconds"
       /\ Resolved("Milliseconds")
       /\ OptionsOf("Milliseconds") = Pair("Fractional", "Auto")

C6_Witness ==
    /\ result = "object"
    /\ options["style"] = "long"
    /\ Explicit(options) = {"seconds"}
    /\ options["seconds"] = "numeric"
    /\ OptionsOf("Seconds") = Pair("Numeric", "Always")
    /\ OptionsOf("Milliseconds") = Pair("Fractional", "Auto")

(* C7, as claimed: an explicit style of a unit passes the unit's style     *)
(* check (its display option is read next) exactly when it names a style   *)
(* of the unit's specified set, and is the unit's RangeError otherwise.    *)
C7_ExplicitStyleCheck ==
    \A u \in UnitSet :
        options[StyleKey(u)] \notin {UNREAD, UNDEFINED}
        => IF Style_from_str(options[StyleKey(u)]) \in SpecifiedStyles(u)
           THEN options[DisplayKey(u)] # UNREAD
           ELSE /\ options[DisplayKey(u)] = UNREAD
                /\ result = "RangeError"
                /\ err_unit = u

(* C8, as claimed: the global style is the named one for long, short,      *)
(* narrow and digital, Short when the option is absent, and any other      *)
(* value ends construction in a RangeError before any unit is resolved.    *)
C8_GlobalStyleParse ==
    options["style"] # UNREAD
    => IF options["style"] = UNDEFINED THEN style = "Short"
       ELSE IF GlobalStyle_from_str(options["style"]) # ParseError
       THEN style = GlobalStyle_from_str(options["style"])
       ELSE /\ result = "RangeError"
            /\ unit_options = << >>

Rejected(nu, loc, prov) == nu # NONE /\ nu \notin prov[loc.id]

OwnNu == arg_locale.keywords["nu"]

(* C9, as claimed: after Service::resolve, an explicit numbering system    *)
(* the oracle rejects for the locale leaves the numbering system absent,   *)
(* whatever the locale's own keywords are.                                 *)
C9_RejectedExplicitIsAbsent ==
    (pc = "style" /\ Rejected(arg_nu, arg_locale, provider))
    => numbering_system = NONE

(* C9, amended: after Service::resolve, an explicit numbering system the   *)
(* oracle rejects is never the result: the result is the locale's own `nu` *)
(* keyword when the locale carries one the oracle accepts, and absent      *)
(* otherwise.                                                              *)
C9_RejectedExplicitFallsBack ==
    (pc = "style" /\ Rejected(arg_nu, arg_locale, provider))
    => /\ numbering_system # arg_nu
       /\ numbering_system =
             IF OwnNu # NONE /\ OwnNu \in provider[arg_locale.id]
             THEN OwnNu ELSE NONE

C9_Witness ==
    /\ pc = "style"
    /\ arg_nu = "thai"
    /\ provider[arg_locale.id] = {"latn", "arab"}
    /\ OwnNu = "arab"
    /\ numbering_system = "arab"

(* C10: after Service::resolve the locale carries no unicode keyword but   *)
(* possibly `nu`; `nu` is present exactly when the returned numbering      *)
(* system is, with the same value, which the oracle accepts for the        *)
(* locale; the locale identifier is untouched.                             *)
C10_OnlyValidatedNu ==
    pc = "style"
    => /\ \A k \in KeywordKeys \ {"nu"} : locale.keywords[k] = NONE
       /\ locale.keywords["nu"] = numbering_system
       /\ numbering_system # NONE => numbering_system \in provider[locale.id]
       /\ locale.id = arg_locale.id

C10_Witness ==
    /\ pc = "style"
    /\ arg_locale.keywords["ca"] = "gregory"
    /\ arg_locale.keywords["nu"] = "thai"
    /\ arg_nu = "arab"
    /\ locale.keywords = [k \in KeywordKeys |-> IF k = "nu" THEN "arab" ELSE NONE]
    /\ numbering_system = "arab"

(* C11: a fractionalDigits outside [0, 9] ends construction in a           *)
(* RangeError and no object; a value in [0, 9] is stored unchanged; an     *)
(* omitted one is stored as None, which differs from Some(0).              *)
C11_FractionalDigits ==
    options["fractionalDigits"] # UNREAD
    => /\ pc = "done"
       /\ CASE options["fractionalDigits"] = UNDEFINED ->
                 /\ result = "object"
                 /\ fractional_digits = NoNumber
                 /\ duration_format.fractional_digits = NoNumber
                 /\ duration_format.fractional_digits # Some(0)
            [] options["fractionalDigits"] = "0" ->
                 /\ result = "object"
                 /\ duration_format.fractional_digits = Some(0)
                 /\ duration_format.fractional_digits # NoNumber
            [] options["fractionalDigits"] = "9" ->
                 /\ result = "object"
                 /\ duration_format.fractional_digits = Some(9)
            [] OTHER ->
                 /\ options["fractionalDigits"] \in {"-1", "10"}
                 /\ result = "RangeError"
                 /\ duration_format = NONE

C11_Witness ==
    /\ options["fractionalDigits"] = "10"
    /\ result = "RangeError"
    /\ Len(unit_options) = Len(Units)
    /\ duration_format = NONE

(* the resolved units so far that belong to hours..microseconds *)
CarriedSoFar ==
    {i \in 1..Len(unit_options) :
        Units[i] \in {"Hours", "Minutes", "Seconds", "Milliseconds", "Microseconds"}}

LastCarried == CHOOSE i \in CarriedSoFar : \A j \in CarriedSoFar : j <= i

PrevStyleAsCarried ==
    prev_style = IF CarriedSoFar = {} THEN EmptyStyle
                 ELSE unit_options[LastCarried].style

(* C12: prevStyle is empty until a unit of hours..microseconds has been    *)
(* resolved and from then on, at the entry of every unit, the resolved     *)
(* style of the nearest preceding unit of hours..microseconds; resolving   *)
(* years, months, weeks, days or nanoseconds, or failing, leaves it as it  *)
(* is.                                                                     *)
C12_PrevStyleCarried ==
    [][ /\ PrevStyleAsCarried'
        /\ ( /\ pc = "units"
             /\ \/ CurrentUnit \in {"Years", "Months", "Weeks", "Days", "Nanoseconds"}
                \/ result' = "RangeError" )
           => prev_style' = prev_style ]_vars

C12_Witness ==
    /\ Len(unit_options) = Len(Units)
    /\ OptionsOf("Hours").style = "Numeric"
    /\ OptionsOf("Seconds").style = "TwoDigit"
    /\ OptionsOf("Microseconds").style = "Fractional"
    /\ OptionsOf("Nanoseconds").style = "Fractional"
    /\ prev_style = "Fractional"

(* C13, as claimed: a finished construction is either an error with no    *)
(* object, or an object holding the locale, the numbering system, the      *)
(* global style, the fractional digits and the resolved (style, display)   *)
(* pairs of all ten units in unit order.                                   *)
C13_CompleteObjectOrError ==
    pc = "done"
    => IF result = "object"
       THEN /\ DOMAIN duration_format =
                  {"locale", "numbering_system", "style", "fractional_digits",
                   "unit_options"}
            /\ Len(duration_format.unit_options) = Len(Units)
            /\ duration_format.unit_options = unit_options
       ELSE /\ result \in {"TypeError", "RangeError"}
            /\ duration_format = NONE

(* C14: a constructor call with undefined NewTarget is over at once with   *)
(* the TypeError: no option has been read, no locale negotiated or         *)
(* resolved, no unit resolved and no object created.                       *)
C14_NewTargetFirst ==
    new_target = UNDEFINED
    => /\ pc = "done"
       /\ result = "TypeError"
       /\ \A k \in OptionKeys : options[k] = UNREAD
       /\ locale = NONE
       /\ arg_locale = NONE
       /\ style = NONE
       /\ unit_options = << >>
       /\ duration_format = NONE

C14_Witness ==
    /\ new_target = UNDEFINED
    /\ result = "TypeError"
    /\ pc = "done"

(* C15: among the units resolved so far, and so among all ten of a         *)
(* successful construction, once a unit of hours..microseconds is          *)
(* Fractional every later unit is Fractional, and once one is Numeric or   *)
(* TwoDigit every later unit is Numeric, TwoDigit or Fractional.           *)
C15_DigitalChainMonotone ==
    \A i, j \in 1..Len(unit_options) :
        (i < j /\ CarriesPrevStyle(Units[i]))
        => /\ unit_options[i].style = "Fractional"
                 => unit_options[j].style = "Fractional"
           /\ unit_options[i].style \in {"Numeric", "TwoDigit"}
                 => unit_options[j].style \in {"Numeric", "TwoDigit", "Fractional"}

C15_Witness ==
    /\ result = "object"
    /\ OptionsOf("Hours").style = "Numeric"
    /\ OptionsOf("Seconds").style = "TwoDigit"
    /\ OptionsOf("Milliseconds").style = "Fractional"
    /\ OptionsOf("Nanoseconds").style = "Fractional"
    /\ options["milliseconds"] = "fractional"

ExplicitStyle == options[StyleKey(frame.unit)] \notin {UNREAD, UNDEFINED}

SubSecond == {"Milliseconds", "Microseconds", "Nanoseconds"}

(* C16: a returning call for minutes or seconds entered with prevStyle     *)
(* Numeric or TwoDigit returns style TwoDigit, whether the style was       *)
(* defaulted or explicit; a returning call for any other unit returns the  *)
(* style that passed validation.                                           *)
C16_ForceTwoDigit ==
    (pc = "done" /\ result = "Ok")
    => /\ (frame.unit \in {"Minutes", "Seconds"}
           /\ prev_style \in {"Numeric", "TwoDigit"})
             => unit_options[1].style = "TwoDigit"
       /\ frame.unit \notin {"Minutes", "Seconds"}
             => unit_options[1].style = frame.style

C16_Witness ==
    /\ pc = "done"
    /\ result = "Ok"
    /\ frame.unit = "Seconds"
    /\ prev_style = "TwoDigit"
    /\ options["seconds"] = "numeric"
    /\ frame.style = "Numeric"
    /\ unit_options[1].style = "TwoDigit"

(* C17: with an explicit style the display option is read with default     *)
(* Always, so a returning call with the display option omitted returns     *)
(* display Always; an explicit style fractional on a sub-second unit whose *)
(* display option is read as anything but auto is never returned and ends  *)
(* in that unit's RangeError.                                              *)
C17_ExplicitStyleDisplayAlways ==
    ExplicitStyle
    => /\ pc = "unit_display" => frame.display_default = "Always"
       /\ (pc = "done" /\ result = "Ok"
           /\ options[DisplayKey(frame.unit)] = UNDEFINED)
             => unit_options[1].display = "Always"
       /\ (frame.unit \in SubSecond
           /\ options[StyleKey(frame.unit)] = "fractional"
           /\ options[DisplayKey(frame.unit)] \notin {UNREAD, "auto"})
             => /\ pc # "unit_return"
                /\ pc = "done" => (result = "RangeError" /\ err_unit = frame.unit)

C17_Witness ==
    /\ pc = "done"
    /\ result = "RangeError"
    /\ frame.unit = "Milliseconds"
    /\ prev_style = "Fractional"
    /\ options["milliseconds"] = "fractional"
    /\ options["millisecondsDisplay"] = UNDEFINED
    /\ frame.display = "Always"

(* C18: under a non-digital base style a unit without explicit style       *)
(* entered with prevStyle Fractional, Numeric or TwoDigit leaves step 3    *)
(* with style Numeric and displayDefault Always for minutes and seconds,   *)
(* Auto otherwise; the display read afterwards is the explicit option when *)
(* there is one and the default otherwise.                                 *)
C18_NumericDefault ==
    ( /\ style # "Digital"
      /\ options[StyleKey(frame.unit)] = UNDEFINED
      /\ prev_style \in {"Fractional", "Numeric", "TwoDigit"} )
    => /\ pc = "unit_numeric"
             => /\ frame.style = "Numeric"
                /\ frame.display_default =
                       IF frame.unit \in {"Minutes", "Seconds"}
                       THEN "Always" ELSE "Auto"
       /\ pc = "unit_validate"
             => frame.display =
                   IF options[DisplayKey(frame.unit)] = UNDEFINED
                   THEN frame.display_default
                   ELSE Display_from_str(options[DisplayKey(frame.unit)])

C18_Witness ==
    /\ pc = "unit_validate"
    /\ style = "Long"
    /\ frame.unit = "Minutes"
    /\ prev_style = "Numeric"
    /\ options["minutes"] = UNDEFINED
    /\ options["minutesDisplay"] = "auto"
    /\ frame.style = "Numeric"
    /\ frame.display_default = "Always"
    /\ frame.display = "Auto"

(* C19: with the style option long, short or narrow, or absent, and no     *)
(* per-unit style or display given, no unit raises, all ten units are      *)
(* resolved, and every resolved unit is {the style named like the global   *)
(* style, Auto}; with the style option absent that is {Short, Auto}.       *)
C19_NamedStyleDefaults ==
    ( /\ options["style"] \in NamedStyleOptions \cup {UNDEFINED}
      /\ NoUnitOverrides )
    => /\ err_unit = NONE
       /\ pc \in {"fractional_digits", "done"} => Len(unit_options) = Len(Units)
       /\ \A i \in 1..Len(unit_options) :
             unit_options[i] =
                Pair(IF options["style"] = UNDEFINED THEN "Short"
                     ELSE Style_from_str(options["style"]),
                     "Auto")

C19_Witness ==
    /\ result = "object"
    /\ options["style"] = "narrow"
    /\ NoUnitOverrides
    /\ \A i \in 1..Len(Units) : unit_options[i] = Pair("Narrow", "Auto")

(* C20: a RangeError of the traversal is the error of the first unit that  *)
(* raises: the units before it are resolved, construction is over, no      *)
(* style or display option of a later unit (nor fractionalDigits) has been *)
(* read; and an explicit style outside the unit's set is that unit's       *)
(* RangeError with the unit's display option unread.                       *)
C20_StopsAtFirstError ==
    /\ err_unit # NONE
       => /\ pc = "done"
          /\ result = "RangeError"
          /\ Len(unit_options) = UnitIndex(err_unit) - 1
          /\ options[StyleKey(err_unit)] # UNREAD
          /\ \A u \in UnitSet :
                UnitIndex(u) > UnitIndex(err_unit)
                => /\ options[StyleKey(u)] = UNREAD
                   /\ options[DisplayKey(u)] = UNREAD
          /\ options["fractionalDigits"] = UNREAD
    /\ \A u \in UnitSet :
          ( /\ options[StyleKey(u)] \notin {UNREAD, UNDEFINED}
            /\ Style_from_str(options[StyleKey(u)]) \notin SpecifiedStyles(u) )
          => /\ err_unit = u
             /\ options[DisplayKey(u)] = UNREAD

C20_Witness ==
    /\ result = "RangeError"
    /\ err_unit = "Minutes"
    /\ options["hours"] = "numeric"
    /\ OptionsOf("Hours") = Pair("Numeric", "Always")
    /\ options["minutes"] = "fractional"
    /\ options["minutesDisplay"] = UNREAD
    /\ options["seconds"] = UNREAD

(* C21: after Service::resolve, an explicit numbering system the oracle    *)
(* accepts for the locale is the result, whatever `nu` keyword the locale  *)
(* carries; without an explicit numbering system the result is the         *)
(* locale's own `nu` keyword when the oracle accepts it and absent         *)
(* otherwise.                                                              *)
C21_ExplicitNuWins ==
    pc = "style"
    => /\ (arg_nu # NONE /\ arg_nu \in provider[arg_locale.id])
             => numbering_system = arg_nu
       /\ arg_nu = NONE
             => numbering_system =
                   IF OwnNu # NONE /\ OwnNu \in provider[arg_locale.id]
                   THEN OwnNu ELSE NONE

C21_Witness ==
    /\ pc = "style"
    /\ arg_nu = "latn"
    /\ OwnNu = "arab"
    /\ provider[arg_locale.id] = {"latn", "arab"}
    /\ numbering_system = "latn"

(* the call taken step by step returns what the call taken at once returns *)
StepwiseAgrees ==
    pc = "done"
    => LET r == UnitOptions_from_options(frame.unit, options, style, prev_style)
       IN IF result = "Ok"
          THEN ~r.err /\ unit_options = << Pair(r.style, r.display) >>
          ELSE /\ r.err
               /\ r.display_read = (options[DisplayKey(frame.unit)] # UNREAD)

====
